---- MODULE Spec2Model ----
(***************************************************************************)
(* A model of update-translations.py: the format-specifier consistency    *)
(* checker, the repair heuristics and the per-document pruning loop of    *)
(* postprocess_translations.                                               *)
(*                                                                         *)
(* A Python str is a sequence of one-character strings, so "%1" is        *)
(* <<"%", "1">>.  Python indexes from 0 and TLA+ from 1: find returns the  *)
(* Python (0-based) index, and s[k] in Python is s[k + 1] here.           *)
(***************************************************************************)
EXTENDS Integers, Sequences, FiniteSets, TLC

\* ------------------------------------------------------------------ bounds

\* Longest translated string the checker is exercised on (CheckSpec).
MaxLen == 4

\* Documents hold MIN_NUM_MESSAGES - 2 .. MIN_NUM_MESSAGES - 2 + Spread filler
\* messages beside two messages drawn from the catalogue (Spec).
Spread == 1

\* --------------------------------------------------------------- constants

\* Minimum number of messages for translation to be considered at all
MIN_NUM_MESSAGES == 10

\* The {30,} of ADDRESS_REGEXP
ADDRESS_MIN_TAIL == 30

\* Python's None, where the code reads an Element's text: no character is
\* the four-letter string, so no str equals it.
None == <<"None">>

Digits19 == {"1", "2", "3", "4", "5", "6", "7", "8", "9"}

\* [a-zA-Z0-9]
Alnum ==
  {"0", "1", "2", "3", "4", "5", "6", "7", "8", "9"}
  \cup {"a", "b", "c", "d", "e", "f", "g", "h", "i", "j", "k", "l", "m",
        "n", "o", "p", "q", "r", "s", "t", "u", "v", "w", "x", "y", "z"}
  \cup {"A", "B", "C", "D", "E", "F", "G", "H", "I", "J", "K", "L", "M",
        "N", "O", "P", "Q", "R", "S", "T", "U", "V", "W", "X", "Y", "Z"}

\* ------------------------------------------------------------ str methods

Min(S) == CHOOSE x \in S : \A y \in S : x <= y

\* str.find(sub, start): the lowest 0-based index >= start where sub occurs,
\* or -1.
find(s, sub, start) ==
  LET hits == {i \in start..(Len(s) - Len(sub)) :
                 SubSeq(s, i + 1, i + Len(sub)) = sub}
  IN IF hits = {} THEN -1 ELSE Min(hits)

\* str.replace(old, new): every non-overlapping occurrence, left to right.
RECURSIVE replace(_, _, _)
replace(s, old, new) ==
  IF Len(s) < Len(old) THEN s
  ELSE IF SubSeq(s, 1, Len(old)) = old
       THEN new \o replace(SubSeq(s, Len(old) + 1, Len(s)), old, new)
       ELSE <<Head(s)>> \o replace(Tail(s), old, new)

\* ------------------------------------------------- specifier extraction

\* The while loop of find_format_specifiers from position pos on, with the
\* specifiers found so far.  s[percent+1] past the end raises IndexError.
RECURSIVE find_format_specifiers_from(_, _, _)
find_format_specifiers_from(s, pos, specifiers) ==
  LET percent == find(s, <<"%">>, pos)
  IN IF percent < 0
     THEN [exc |-> "none", val |-> specifiers]
     ELSE IF percent + 1 >= Len(s)
          THEN [exc |-> "IndexError", val |-> <<>>]
          ELSE find_format_specifiers_from(
                 s, percent + 2, Append(specifiers, s[percent + 2]))

find_format_specifiers(s) == find_format_specifiers_from(s, 0, <<>>)

\* The for loop of split_format_specifiers: the (numeric, other) lists.
RECURSIVE split_lists(_)
split_lists(specifiers) ==
  IF specifiers = <<>> THEN [numeric |-> <<>>, other |-> <<>>]
  ELSE LET rest == split_lists(Tail(specifiers))
           s == Head(specifiers)
       IN IF s \in Digits19
          THEN [rest EXCEPT !.numeric = <<s>> \o @]
          ELSE [rest EXCEPT !.other = <<s>> \o @]

\* The return statement of split_format_specifiers, the lists kept as they
\* are ("if numeric: other = []" left out).
split_result_keep_other(l) ==
  [numeric |-> {l.numeric[i] : i \in DOMAIN l.numeric}, other |-> l.other]

\* Lines 75-79 of split_format_specifiers on the lists of its for loop.
split_result(l) ==
  [numeric |-> {l.numeric[i] : i \in DOMAIN l.numeric},
   other |-> IF l.numeric # <<>> THEN <<>> ELSE l.other]

split_format_specifiers(specifiers) == split_result(split_lists(specifiers))

sanitize_string(s) == replace(s, <<"\n">>, <<" ">>)

\* The value of the global source_f before check_format_specifiers first
\* sets it (never read then).
NoProfile == [numeric |-> {}, other |-> <<>>]

\* An entry of errors: the kind of finding and the two strings it quotes.
finding(kind, source, translation) ==
  [kind |-> kind, source |-> sanitize_string(source),
   translation |-> sanitize_string(translation)]

\* Line 98 without "numerus and".
numerus_exemption_any_message(numerus, sf, tf_, translation) ==
  /\ sf = [numeric |-> {}, other |-> <<"n">>]
  /\ tf_ = [numeric |-> {}, other |-> <<>>]
  /\ find(translation, <<"%">>, 0) = -1

\* Line 98: numerus translations may omit the %n specifier.
numerus_exemption(numerus, sf, tf_, translation) ==
  /\ numerus
  /\ sf = [numeric |-> {}, other |-> <<"n">>]
  /\ tf_ = [numeric |-> {}, other |-> <<>>]
  /\ find(translation, <<"%">>, 0) = -1

\* Lines 88-103 of check_format_specifiers, given what find_format_specifiers
\* raised on the source (src_exc) and on the translation (tr_exc) and the
\* two profiles.
check_profiles(source, translation, errors, numerus, src_exc, sf, tr_exc, tf_) ==
  IF src_exc # "none"
  THEN \* line 87 is outside the try: the IndexError propagates
       [exc |-> src_exc, ret |-> FALSE, errors |-> errors, source_f |-> NoProfile]
  ELSE IF sf.numeric # {} /\ sf.other # <<>>
  THEN \* assert(not(source_f[0] and source_f[1]))
       [exc |-> "AssertionError", ret |-> FALSE, errors |-> errors, source_f |-> sf]
  ELSE IF tr_exc # "none"
  THEN [exc |-> "none", ret |-> FALSE, source_f |-> sf,
        errors |-> Append(errors, finding("Parse error", source, translation))]
  ELSE IF sf # tf_ /\ ~numerus_exemption(numerus, sf, tf_, translation)
  THEN [exc |-> "none", ret |-> FALSE, source_f |-> sf,
        errors |-> Append(errors, finding("Mismatch", source, translation))]
  ELSE [exc |-> "none", ret |-> TRUE, errors |-> errors, source_f |-> sf]

\* The profile of a text: split_format_specifiers(find_format_specifiers(text)),
\* exc the IndexError the inner call raises.
profile_found(f) == [exc |-> f.exc, val |-> split_format_specifiers(f.val)]

profile_of(text) == profile_found(find_format_specifiers(text))

\* check_format_specifiers(source, translation, errors, numerus): what it
\* raises (exc), what it returns (ret), the errors list after the call and
\* the global source_f it sets.
check_with_profiles(source, translation, errors, numerus, ps, pt) ==
  check_profiles(source, translation, errors, numerus,
                 ps.exc, ps.val, pt.exc, pt.val)

check_format_specifiers(source, translation, errors, numerus) ==
  check_with_profiles(source, translation, errors, numerus,
                      profile_of(source), profile_of(translation))

\* Fix most common (format specifiers related) mistakes
fix_string(s) ==
  LET r1 == replace(s, <<"%", " ", "1">>, <<"%", "1">>)
      r2 == replace(r1, <<"1", "%">>, <<"%", "1">>)
      r3 == replace(r2, <<"$", "1">>, <<"%", "1">>)
      r4 == replace(r3, <<"2", "%">>, <<"%", "2">>)
      r5 == replace(r4, <<"%", " ", "s">>, <<"%", "s">>)
      r6 == replace(r5, <<"s", "%">>, <<"%", "s">>)
      r7 == replace(r6, <<"$", "s">>, <<"%", "s">>)
      r8 == replace(r7, <<"n", "%">>, <<"%", "n">>)
      r9 == replace(r8, <<"$", "n">>, <<"%", "n">>)
      r10 == replace(r9, <<"%", " ", "n">>, <<"%", "n">>)
  IN replace(r10, <<"%", " ", "d">>, <<"%", "d">>)

\* Whether [a-zA-Z0-9]{30,} matches at 0-based index i of text.
AlnumRunAt(text, i) ==
  /\ i + ADDRESS_MIN_TAIL <= Len(text)
  /\ \A k \in (i + 1)..(i + ADDRESS_MIN_TAIL) : text[k] \in Alnum

\* ADDRESS_REGEXP.search(text) is not None
address_search(text) ==
  \E i \in 0..(Len(text) - 1) :
    \/ text[i + 1] \in {"1", "3"} /\ AlnumRunAt(text, i + 1)
    \/ /\ i + 3 <= Len(text)
       /\ SubSeq(text, i + 1, i + 3) = <<"b", "c", "1">>
       /\ AlnumRunAt(text, i + 3)

\* contains_bitcoin_addr(text, errors): the return value and the errors list
\* after the call.
contains_bitcoin_addr(text, errors) ==
  IF text # None /\ address_search(text)
  THEN [ret |-> TRUE,
        errors |-> Append(errors, [kind |-> "Bitcoin address", source |-> <<>>,
                                   translation |-> text])]
  ELSE [ret |-> FALSE, errors |-> errors]

\* ------------------------------------------------------- the repair path

\* clear_translation(t): t.clear() drops the attributes, the text and the
\* children; then type is set.
clear_translation(t) ==
  [type |-> "unfinished", text |-> None, numerusforms |-> <<>>]

\* The condition of line 198: the fixed text takes a space before each '%'.
wants_space(text) ==
  /\ text[1] # "%"
  /\ find(text, <<" ", "%">>, 0) = -1
  /\ find(text, <<"(", "%">>, 0) = -1
  /\ find(text, <<"'", "%">>, 0) = -1
  /\ find(text, <<"\"", "%">>, 0) = -1

\* Lines 198-199.
with_spaces(text) ==
  IF wants_space(text) THEN replace(text, <<"%">>, <<" ", "%">>) ELSE text

\* What the repair of a node comes to.  exc: the exception that escapes;
\* node: the node afterwards; fixed: tf was incremented; cleared: have_errors
\* was set and the node cleared; pass: the repair pass whose re-check decided
\* (1 literal substitution, 2 marker swap, 3 positional-vs-plural swap, 0 none).
raised(t, text) ==
  [exc |-> "IndexError", node |-> [t EXCEPT !.text = text], fixed |-> FALSE,
   cleared |-> FALSE, pass |-> 0]

fix(t, text, k) ==
  [exc |-> "none", node |-> [t EXCEPT !.text = text], fixed |-> TRUE,
   cleared |-> FALSE, pass |-> k]

clear(t, k) ==
  [exc |-> "none", node |-> clear_translation(t), fixed |-> FALSE,
   cleared |-> TRUE, pass |-> k]

\* Lines 208-217 and 220-229: the text was swapped to text, whose profile is p.
recheck_profile(t, sf, text, k, p) ==
  IF p.exc # "none" THEN raised(t, text)
  ELSE IF sf = p.val THEN fix(t, text, k)
  ELSE clear(t, k)

recheck(t, sf, text, k) == recheck_profile(t, sf, text, k, profile_of(text))

\* Lines 195-234: text1 is the node's text after fix_string, p1 its profile.
repair_passes(t, source, sf, text1, p1) ==
  IF p1.exc # "none" THEN raised(t, text1)
  ELSE IF sf = p1.val
  THEN IF text1 = <<>> THEN raised(t, text1)  \* translation_node.text[0]
       ELSE fix(t, with_spaces(text1), 1)
  ELSE IF find(text1, <<"%">>, 0) >= 0 /\ find(source, <<"&">>, 0) >= 0
  THEN recheck(t, sf, replace(text1, <<"%">>, <<"&">>), 2)
  ELSE IF find(text1, <<"%", "1">>, 0) >= 0 /\ find(source, <<"%", "n">>, 0) >= 0
  THEN recheck(t, sf, replace(text1, <<"%", "1">>, <<"%", "n">>), 3)
  ELSE clear(t, 0)

repair_text(t, source, sf, text1) ==
  repair_passes(t, source, sf, text1, profile_of(text1))

\* Lines 193-239, the body of "if not valid:" on translation node t.
repair(t, source, sf) ==
  IF t.text = None THEN clear(t, 0)
  ELSE repair_text(t, source, sf, fix_string(t.text))

\* Line 192 with the test dropped: every checked translation is repaired.
repair_needed_always(isvalid) == TRUE

\* Line 192: if not valid
repair_needed(isvalid) == ~isvalid

\* Line 186 after a True check: "and not contains_bitcoin_addr(...)".
address_verdict(adr) == [valid |-> ~adr.ret, errors |-> adr.errors]

\* Line 186: valid and the errors list; "and" calls contains_bitcoin_addr
\* only after check_format_specifiers returned True.
verdict(chk, translation) ==
  IF chk.ret
  THEN address_verdict(contains_bitcoin_addr(translation, chk.errors))
  ELSE [valid |-> FALSE, errors |-> chk.errors]

\* Lines 193-239 done: rep is what repair came to.
body_repaired(chk, v, tf0, he0, rep) ==
  [exc |-> rep.exc,
   op |-> IF rep.exc # "none" THEN "raised"
          ELSE IF rep.fixed THEN "fixed" ELSE "cleared",
   pass |-> rep.pass, node |-> rep.node, errors |-> v.errors,
   judged |-> TRUE, repairing |-> TRUE, valid |-> v.valid, source_f |-> chk.source_f,
   tf |-> IF rep.fixed THEN tf0 + 1 ELSE tf0,
   have_errors |-> IF rep.cleared THEN TRUE ELSE he0]

\* Lines 188-239: v is valid and errors as line 186 left them.
body_judged(t, source, chk, tf0, he0, v) ==
  IF ~repair_needed(v.valid)
  THEN [exc |-> "none", op |-> "valid", pass |-> 0, node |-> t,
        judged |-> TRUE, repairing |-> FALSE, errors |-> v.errors, valid |-> v.valid, source_f |-> chk.source_f,
        tf |-> tf0, have_errors |-> he0]
  ELSE body_repaired(chk, v, tf0, he0, repair(t, source, chk.source_f))

\* Lines 186-239: chk is what check_format_specifiers came to.
body_checked(t, source, translation, sf0, tf0, he0, chk) ==
  IF chk.exc # "none"
  THEN [exc |-> chk.exc, op |-> "raised", pass |-> 0, node |-> t,
        judged |-> FALSE, repairing |-> FALSE, errors |-> <<>>, valid |-> FALSE,
        source_f |-> IF chk.exc = "IndexError" THEN sf0 ELSE chk.source_f,
        tf |-> tf0, have_errors |-> he0]
  ELSE body_judged(t, source, chk, tf0, he0, verdict(chk, translation))

\* Lines 183-239: one pass of "for translation in translations" on
\* translation node t, given the globals source_f and tf and the local
\* have_errors.  op: skip (None), valid, fixed, cleared or raised; judged:
\* line 186 assigned valid; repairing: the branch of line 192 was entered.
translation_body(t, source, numerus, translation, sf0, tf0, he0) ==
  IF translation = None
  THEN [exc |-> "none", op |-> "skip", pass |-> 0, node |-> t, errors |-> <<>>,
        judged |-> FALSE, repairing |-> FALSE, valid |-> TRUE, source_f |-> sf0, tf |-> tf0, have_errors |-> he0]
  ELSE body_checked(t, source, translation, sf0, tf0, he0,
         check_format_specifiers(source, translation, <<>>, numerus))

\* Lines 177-180: the texts the loop walks, collected before it starts.
translations_of(message) ==
  IF message.numerus THEN message.translation.numerusforms
  ELSE <<message.translation.text>>

\* Line 242: translation_node.get('type') == 'unfinished'
is_unfinished(t) == t.type = "unfinished"

RECURSIVE count_messages(_)
\* Lines 250-253: the messages of all contexts of the root.
count_messages(root) ==
  IF root = <<>> THEN 0 ELSE Len(Head(root)) + count_messages(Tail(root))

\* Line 254 with "<=" for "<".
too_few_or_equal(num_messages) == num_messages <= MIN_NUM_MESSAGES

\* Line 254: if num_messages < MIN_NUM_MESSAGES
too_few(num_messages) == num_messages < MIN_NUM_MESSAGES

\* The first context at or after c that has a message to iterate, 0 if none:
\* where the nested for loops of lines 171-172 stand next.
next_context(root, c) ==
  LET cs == {k \in c..Len(root) : Len(root[k]) >= 1}
  IN IF cs = {} THEN 0 ELSE Min(cs)

\* ----------------------------------------------------------------- inputs

\* A <message>: its numerus="yes" attribute, the text of its <source>, its
\* <translation> (type attribute, text, the texts of its <numerusform>
\* children) and the number of its <location> children.
Message(numerus, source, type, text, forms) ==
  [numerus |-> numerus, source |-> source, locations |-> 1,
   translation |-> [type |-> type, text |-> text, numerusforms |-> forms]]

Plain(source, text) == Message(FALSE, source, "", text, <<>>)

\* '1' followed by n characters of [a-zA-Z0-9]
OneAnd(n) == <<"1">> \o [i \in 1..n |-> "A"]

Filler == Plain(<<"O", "k">>, <<"J", "a">>)

PlainMessages ==
  { Filler,
    Plain(<<"%", "1", " ", "a">>, <<"b", " ", "%", "1">>),
    \* an address, profile equal to the source's
    Plain(<<"T", "o">>, <<"t", "o", " ">> \o OneAnd(ADDRESS_MIN_TAIL)),
    \* one character short of an address
    Plain(<<"T", "o">>, OneAnd(ADDRESS_MIN_TAIL - 1)),
    \* an address, profile different from the source's
    Plain(<<"%", "1">>, OneAnd(ADDRESS_MIN_TAIL)),
    \* trailing '%' that fix_string leaves in place
    Plain(<<"O", "k">>, <<"9", "%">>),
    \* trailing '%' that fix_string repairs
    Plain(<<"%", "1">>, <<"1", "%">>),
    \* marker swap applies and fails where the plural swap would fix
    Plain(<<"&", "a", " ", "%", "n">>, <<"&", "b", " ", "%", "1">>),
    \* literal substitution, then a space before '%'
    Plain(<<"a", " ", "%", "1">>, <<"b", "$", "1">>),
    \* literal substitution, then a space that splits "%%"
    Plain(<<"%", "1">>, <<"a", "$", "1", "x", "%", "%">>),
    \* marker swap fixes
    Plain(<<"&", "O", "k">>, <<"%", "O", "k">>),
    \* marker swap fails
    Plain(<<"&", "a", " ", "%", "1">>, <<"%", "a">>),
    \* plural swap fixes
    Plain(<<"%", "n", " ", "a">>, <<"%", "1", " ", "b">>),
    \* plural swap fails
    Plain(<<"%", "n", "%", "s">>, <<"%", "1">>),
    \* no pass applies
    Plain(<<"%", "1">>, <<"a", "b">>),
    \* <translation type="unfinished"/>
    Message(FALSE, <<"O", "k">>, "unfinished", None, <<>>),
    \* <translation/>
    Message(FALSE, <<"O", "k">>, "", None, <<>>),
    \* unfinished with a valid text
    Message(FALSE, <<"O", "k">>, "unfinished", <<"J", "a">>, <<>>) }

NumerusMessages ==
  { Message(TRUE, <<"%", "n", " ", "a">>, "", None,
            << <<"%", "n", " ", "b">>, <<"%", "n", " ", "c">> >>),
    \* a form that omits %n
    Message(TRUE, <<"%", "n", " ", "a">>, "", None,
            << <<"b">>, <<"%", "n", " ", "c">> >>),
    \* an invalid form
    Message(TRUE, <<"%", "n", " ", "a">>, "", None, << <<"%", "1", " ", "b">> >>),
    \* an invalid form under a pretty-printed (whitespace) node text
    Message(TRUE, <<"a">>, "", <<"\n", " ">>, << <<"%", "s">> >>),
    \* two invalid forms
    Message(TRUE, <<"%", "n", " ", "a">>, "", None,
            << <<"%", "1">>, <<"%", "s">> >>),
    \* an empty form
    Message(TRUE, <<"%", "n", " ", "a">>, "", None,
            << None, <<"%", "n", " ", "b">> >>) }

Catalogue == PlainMessages \cup NumerusMessages

\* A document: a root of two contexts, a and n fillers in the first, b in
\* the second.
Document(n, a, b) == << <<a>> \o [i \in 1..n |-> Filler], <<b>> >>

FillerCounts == (MIN_NUM_MESSAGES - 2)..(MIN_NUM_MESSAGES - 2 + Spread)

Documents == {Document(n, a, b) : n \in FillerCounts, a \in Catalogue, b \in Catalogue}

\* The documents a run ends on: one message of them is pruned.
LastDocuments ==
  {Document(n, Filler, Message(FALSE, <<"O", "k">>, "unfinished", None, <<>>)) :
     n \in FillerCounts}

\* The characters of the strings CheckSpec enumerates.
Alphabet == {"%", "1", "2", "n", "s"}

Strings(n) == UNION {[1..k -> Alphabet] : k \in 0..n}

\* Source strings of CheckSpec: every profile shape, repeated specifiers,
\* both conventions mixed, and a trailing '%'.
Sources ==
  { <<>>, <<"s">>, <<"%", "n">>, <<"%", "s">>, <<"%", "1">>,
    <<"%", "n", "%", "s">>, <<"%", "s", "%", "n">>, <<"%", "1", "%", "2">>,
    <<"%", "%">>, <<"%", "1", "%", "n">>, <<"%", "s", "%", "2">>,
    <<"%", "1", "%", "1">>, <<"%", "n", "%", "n">>, <<"%", "2">>,
    <<"1", "%", "n">>, <<"%", "%", "1">>,
    <<"n", "%", "1", "%">>, <<"s", "%">> }

\* ------------------------------------------------------------------ state

VARIABLES
  files,         \* the documents of LOCALE_DIR, in os.listdir order
  fi,            \* how many of them the loop of line 160 has taken
  root,          \* tree.getroot() of the current document: its contexts
  ci, mi,        \* the context and the message the loops of 171-172 are at
  numerus, source, translations,   \* the locals of lines 173-180
  ti,            \* the translation the loop of line 182 is at
  errors, valid, \* the locals of lines 185-186
  source_f, tf, lr,   \* the globals
  have_errors,
  written,       \* the trees written back, each with the index of its file
  pc,            \* where the run stands
  exc,           \* the exception that ended the run, "none" while it runs
  result,        \* what postprocess_translations returned
  translation_f, \* CheckSpec: the profile computed from the translation
  entry,         \* history: the node, tf and have_errors when the message was loaded
  last           \* history: what the latest pass of the loop of line 182 did
                 \* on the message loaded, and the state it started from

vars == <<files, fi, root, ci, mi, numerus, source, translations, ti, errors,
          valid, source_f, tf, lr, have_errors, written, pc, exc, result,
          translation_f, entry, last>>

NoEntry == [node |-> clear_translation(None), tf |-> 0, have_errors |-> FALSE]
NoLast == [op |-> "none", pass |-> 0, repairing |-> FALSE, text0 |-> None,
           tf0 |-> 0, he0 |-> FALSE, translation |-> None]

\* Lines 144-159: the state when the loop over the documents starts.
Idle ==
  /\ fi = 0 /\ root = <<>> /\ ci = 0 /\ mi = 0
  /\ ti = 0 /\ errors = <<>> /\ valid = TRUE
  /\ source_f = NoProfile /\ tf = 0 /\ lr = 0 /\ have_errors = FALSE
  /\ written = <<>> /\ exc = "none" /\ result = FALSE
  /\ translation_f = [exc |-> "none", val |-> NoProfile]
  /\ entry = NoEntry /\ last = NoLast

Init ==
  /\ files \in {<<d, e>> : d \in Documents, e \in LastDocuments}
  /\ numerus = FALSE /\ source = <<>> /\ translations = <<>>
  /\ pc = "file"
  /\ Idle

\* ---------------------------------------------------------------- actions

current == root[ci][mi]

\* Lines 160-172: take the next document and stand at its first message.
StartDocument ==
  /\ pc = "file" /\ fi < Len(files)
  /\ fi' = fi + 1
  /\ root' = files[fi + 1]
  /\ ci' = next_context(files[fi + 1], 1)
  /\ mi' = 1
  /\ pc' = IF next_context(files[fi + 1], 1) = 0 THEN "count" ELSE "message"
  /\ UNCHANGED <<files, numerus, source, translations, ti, errors, valid,
                 source_f, tf, lr, have_errors, written, exc, result,
                 translation_f, entry, last>>

\* Lines 173-180.
LoadMessage ==
  /\ pc = "message"
  /\ numerus' = current.numerus
  /\ source' = current.source
  /\ translations' = translations_of(current)
  /\ ti' = 1
  /\ entry' = [node |-> current.translation, tf |-> tf, have_errors |-> have_errors]
  /\ last' = NoLast
  /\ pc' = IF translations_of(current) = <<>> THEN "prune" ELSE "translation"
  /\ UNCHANGED <<files, fi, root, ci, mi, errors, valid, source_f, tf, lr,
                 have_errors, written, exc, result, translation_f>>

\* The assignments of one pass of the loop of line 182, b what the pass
\* came to.
TranslationDone(b) ==
  /\ root' = [root EXCEPT ![ci][mi].translation = b.node]
  /\ errors' = IF b.op = "skip" THEN errors ELSE b.errors
  /\ valid' = IF b.judged THEN b.valid ELSE valid
  /\ source_f' = b.source_f
  /\ tf' = b.tf
  /\ have_errors' = b.have_errors
  /\ exc' = b.exc
  /\ last' = [op |-> b.op, pass |-> b.pass, repairing |-> b.repairing,
              text0 |-> root[ci][mi].translation.text, tf0 |-> tf,
              he0 |-> have_errors, translation |-> translations[ti]]
  /\ ti' = IF b.exc = "none" THEN ti + 1 ELSE ti
  /\ pc' = IF b.exc # "none" THEN "crashed"
           ELSE IF ti + 1 > Len(translations) THEN "prune"
           ELSE "translation"

\* Lines 182-239: one translation of the message.
TranslationStep ==
  /\ pc = "translation"
  /\ TranslationDone(translation_body(current.translation, source, numerus,
                       translations[ti], source_f, tf, have_errors))
  /\ UNCHANGED <<files, fi, ci, mi, numerus, source, translations, lr,
                 written, result, translation_f, entry>>

\* Lines 241-247, and the step of the loops of 171-172 to the next message.
PruneMessage ==
  /\ pc = "prune"
  /\ LET gone == is_unfinished(current.translation)
         kept == [root EXCEPT ![ci][mi].locations = 0]
         dropped == [root EXCEPT ![ci] =
                       SubSeq(@, 1, mi - 1) \o SubSeq(@, mi + 1, Len(@))]
         r == IF gone THEN dropped ELSE kept
         m == IF gone THEN mi ELSE mi + 1
         c == IF m <= Len(r[ci]) THEN ci ELSE next_context(r, ci + 1)
     IN /\ root' = r
        /\ ci' = c
        /\ mi' = IF c = ci THEN m ELSE 1
        /\ pc' = IF c = 0 THEN "count" ELSE "message"
  /\ UNCHANGED <<files, fi, numerus, source, translations, ti, errors, valid,
                 source_f, tf, lr, have_errors, written, exc, result,
                 translation_f, entry, last>>

\* Lines 249-269: discard the document or write it back.
FinishDocument ==
  /\ pc = "count"
  /\ IF too_few(count_messages(root))
     THEN lr' = lr + 1 /\ written' = written
     ELSE lr' = lr /\ written' = Append(written, [file |-> fi, tree |-> root])
  /\ pc' = "file"
  /\ UNCHANGED <<files, fi, root, ci, mi, numerus, source, translations, ti,
                 errors, valid, source_f, tf, have_errors, exc, result,
                 translation_f, entry, last>>

\* Line 270.
Return ==
  /\ pc = "file" /\ fi = Len(files)
  /\ result' = have_errors
  /\ pc' = "done"
  /\ UNCHANGED <<files, fi, root, ci, mi, numerus, source, translations, ti,
                 errors, valid, source_f, tf, lr, have_errors, written, exc,
                 translation_f, entry, last>>

Next ==
  \/ StartDocument
  \/ LoadMessage
  \/ TranslationStep
  \/ PruneMessage
  \/ FinishDocument
  \/ Return

Spec == Init /\ [][Next]_vars

\* ------------------------------------------- the checker on its own inputs

CheckInit ==
  /\ files = <<>>
  /\ source \in Sources
  /\ translations \in {<<t>> : t \in Strings(MaxLen)}
  /\ numerus \in BOOLEAN
  /\ pc = "input"
  /\ Idle

\* split_format_specifiers(find_format_specifiers(translation))
ProfileCall ==
  /\ pc = "input"
  /\ translation_f' = profile_of(translations[1])
  /\ pc' = "profiled"
  /\ UNCHANGED <<files, fi, root, ci, mi, numerus, source, translations, ti,
                 errors, valid, source_f, tf, lr, have_errors, written, exc,
                 result, entry, last>>

\* The assignments of CheckCall, r what the call came to.
CheckDone(r) ==
  /\ exc' = r.exc
  /\ valid' = r.ret
  /\ errors' = r.errors
  /\ source_f' = IF r.exc = "IndexError" THEN source_f ELSE r.source_f

\* check_format_specifiers(source, translation, [], numerus)
CheckCall ==
  /\ pc = "profiled"
  /\ CheckDone(check_format_specifiers(source, translations[1], <<>>, numerus))
  /\ pc' = "checked"
  /\ UNCHANGED <<files, fi, root, ci, mi, numerus, source, translations, ti,
                 tf, lr, have_errors, written, result, translation_f, entry,
                 last>>

CheckNext == ProfileCall \/ CheckCall

CheckSpec == CheckInit /\ [][CheckNext]_vars

\* ------------------------------------------------ the spec's own notions

\* Section 4.1: position i of s holds a '%' the scan stops at: it is a '%'
\* and the position before it is not one the scan stopped at (the scan
\* resumes two positions after each).
Markers(s) ==
  LET m[i \in 1..Len(s)] == s[i] = "%" /\ (i = 1 \/ ~m[i - 1])
  IN {i \in 1..Len(s) : m[i]}

\* No trailing '%' with no following character.
WellFormed(s) == Len(s) \notin Markers(s)

\* The characters after the markers, in order.
Taken(s) ==
  LET P == Markers(s)
      at(k) == CHOOSE i \in P : Cardinality({j \in P : j < i}) = k - 1
  IN [k \in 1..Cardinality(P) |-> s[at(k) + 1]]

\* Section 4.2: the profile of a well-formed string.
SpecProfile(s) ==
  LET t == Taken(s)
      digits == {t[k] : k \in {j \in DOMAIN t : t[j] \in Digits19}}
  IN [numeric |-> digits,
      other |-> IF digits = {} THEN t ELSE <<>>]

\* Both conventions in one string.
Mixed(s) ==
  LET t == Taken(s)
  IN /\ \E k \in DOMAIN t : t[k] \in Digits19
     /\ \E k \in DOMAIN t : t[k] \notin Digits19

\* The translated strings of a translation node, as the message reads them.
Strings_of(node, isnumerus) ==
  LET ts == IF isnumerus THEN node.numerusforms ELSE <<node.text>>
  IN {ts[i] : i \in DOMAIN ts} \ {None}

\* The messages of a tree, and how many there are.
MessagesOf(tree) ==
  UNION {{tree[c][m] : m \in DOMAIN tree[c]} : c \in DOMAIN tree}

Survivors(tree) ==
  Cardinality(UNION {{<<c, m>> : m \in DOMAIN tree[c]} : c \in DOMAIN tree})

\* The message the loop of line 172 stands at is the one last refers to.
AtMessage == pc \in {"translation", "prune", "crashed"}

\* ------------------------------------------------------------------ claims

\* C1: a translation that matches the address pattern is removed: no text
\* of a written document holds an address, and no such translation is kept
\* as an accepted fix.
C1_AddressTranslationRemoved ==
  /\ \A i \in DOMAIN written : \A msg \in MessagesOf(written[i].tree) :
       \A t \in Strings_of(msg.translation, msg.numerus) : ~address_search(t)
  /\ last.op = "fixed" => ~address_search(last.translation)

\* C2: after a repair is accepted as a fix (tf incremented, translation
\* kept), every translated string left in the message passes the consistency
\* check against the source.
C2_AcceptedFixRevalidated ==
  (AtMessage /\ last.op = "fixed") =>
    \A t \in Strings_of(current.translation, numerus) :
      check_format_specifiers(source, t, <<>>, numerus).ret

\* C3: a translation with a trailing '%' yields a recorded parse-error
\* finding, is treated as invalid, and the run goes on with no uncaught
\* exception.
C3_ParseErrorRunContinues ==
  (last.op # "none" /\ last.translation # None /\ WellFormed(source)
     /\ ~WellFormed(last.translation)) =>
    /\ exc = "none"
    /\ ~valid
    /\ \E k \in DOMAIN errors : errors[k].kind = "Parse error"

\* C4: a translation is cleared only after the positional-vs-plural swap was
\* applied and re-checked, whenever the text after the literal substitution
\* holds '%1' and the source holds '%n'.
C4_PluralSwapTriedBeforeClear ==
  (last.op = "cleared" /\ last.text0 # None
     /\ find(fix_string(last.text0), <<"%", "1">>, 0) >= 0
     /\ find(source, <<"%", "n">>, 0) >= 0) =>
    last.pass = 3

\* C5: a source string that mixes both specifier conventions fails the
\* assertion of check_format_specifiers: the call ends in AssertionError.
C5_MixedSourceIsFatal ==
  (pc = "checked" /\ WellFormed(source) /\ Mixed(source)) =>
    exc = "AssertionError"

\* C6: on well-formed strings check_format_specifiers returns True exactly
\* when the profiles are equal or the numerus exemption applies; it appends
\* exactly one finding when it returns False and none when it returns True.
C6_CheckTrueIffEqualOrExempt ==
  (pc = "checked" /\ WellFormed(source) /\ WellFormed(translations[1])) =>
    LET ps == SpecProfile(source)
        pt == SpecProfile(translations[1])
        exempt == /\ numerus
                  /\ ps = [numeric |-> {}, other |-> <<"n">>]
                  /\ pt = [numeric |-> {}, other |-> <<>>]
                  /\ \A i \in DOMAIN translations[1] : translations[1][i] # "%"
    IN /\ exc = "none"
       /\ valid <=> (ps = pt \/ exempt)
       /\ valid => errors = <<>>
       /\ ~valid => Len(errors) = 1

\* C6 witness: a numerus translation without %n was accepted though the
\* profiles differ.
C6_Witness ==
  /\ pc = "checked" /\ numerus /\ valid
  /\ WellFormed(source) /\ WellFormed(translations[1])
  /\ SpecProfile(source) # SpecProfile(translations[1])

\* C7: every repair attempt ends as a fix (tf + 1, node kept, have_errors
\* as before) or as an irreparable message (tf as before, node emptied and
\* typed unfinished, have_errors set), and no unfinished message is left
\* when the document is counted.
C7_RepairEndsFixedOrCleared ==
  /\ (AtMessage /\ last.repairing) =>
       \/ /\ last.op = "fixed"
          /\ tf = last.tf0 + 1
          /\ current.translation # clear_translation(current.translation)
          /\ have_errors = last.he0
       \/ /\ last.op = "cleared"
          /\ tf = last.tf0
          /\ current.translation =
               [type |-> "unfinished", text |-> None, numerusforms |-> <<>>]
          /\ have_errors
  /\ pc = "count" =>
       \A msg \in MessagesOf(root) : msg.translation.type # "unfinished"

\* C8: between documents, the document just processed holds no unfinished
\* message, it was written to its own path exactly if 10 or more messages
\* survive, and every document so far was either written or counted in lr.
C8_PrunedAndWrittenIffEnough ==
  (pc = "file" /\ fi >= 1) =>
    /\ \A msg \in MessagesOf(root) : msg.translation.type # "unfinished"
    /\ Survivors(root) >= 10 <=>
         (\E i \in DOMAIN written : written[i] = [file |-> fi, tree |-> root])
    /\ Survivors(root) <= 9 => \A i \in DOMAIN written : written[i].file # fi
    /\ lr + Len(written) = fi
    /\ \A i, j \in DOMAIN written : written[i].file = written[j].file => i = j

\* C8 witness: a document of 9 survivors was discarded, the run went on, and
\* the next document, of 10 survivors, was written.
C8_Witness ==
  /\ pc = "file" /\ fi = 2 /\ lr = 1
  /\ Len(written) = 1 /\ written[1].file = 2
  /\ Survivors(root) = 10

\* C9: the profile of a string that does not end in an unpaired '%' is the
\* digits 1-9 among the characters after the markers, as a set, and the other
\* such characters in order when there is no digit, none otherwise; no '%'
\* gives the empty profile and no profile has both parts non-empty.
C9_ProfileIsScanOfMarkers ==
  (pc # "input" /\ files = <<>> /\ WellFormed(translations[1])) =>
    /\ translation_f = [exc |-> "none", val |-> SpecProfile(translations[1])]
    /\ (\A i \in DOMAIN translations[1] : translations[1][i] # "%") =>
         translation_f.val = [numeric |-> {}, other |-> <<>>]
    /\ ~(translation_f.val.numeric # {} /\ translation_f.val.other # <<>>)

\* C9 witness: a digit and a non-digit follow markers, and the non-digit is
\* not in the profile.
C9_Witness ==
  /\ pc = "profiled" /\ WellFormed(translations[1]) /\ Mixed(translations[1])
  /\ translation_f.val.numeric # {} /\ translation_f.val.other = <<>>

\* C10: when every translated string of a message passes the consistency
\* check and holds no address, the loop leaves the translation node, tf and
\* have_errors as they were when the message was loaded.
C10_ValidMessageUntouched ==
  (pc = "prune"
     /\ \A t \in Strings_of(entry.node, numerus) :
          /\ check_format_specifiers(source, t, <<>>, numerus).ret
          /\ ~address_search(t)) =>
    /\ current.translation = entry.node
    /\ tf = entry.tf
    /\ have_errors = entry.have_errors

\* C10 witness: a numerus message with two valid forms went through the
\* loop.
C10_Witness ==
  /\ pc = "prune" /\ numerus /\ last.op = "valid"
  /\ Cardinality(Strings_of(entry.node, numerus)) = 2
  /\ \A t \in Strings_of(entry.node, numerus) :
       /\ check_format_specifiers(source, t, <<>>, numerus).ret
       /\ ~address_search(t)

====
